---- MODULE Spec2Model ----
(***************************************************************************)
(* Ted, a modal (vi-style) terminal editor: src/ted.py (curses front-end)  *)
(* and src/ted-win.py (msvcrt front-end).  The model covers class Ted: the *)
(* line buffer, the cursor, the Normal/Insert key handlers, the command    *)
(* line and save/load.  Text is a sequence of one-character strings, the   *)
(* buffer a sequence of such lines; rows and columns are 0-based as in the *)
(* source, TLA+ sequences are 1-based, so row y is content[y + 1].         *)
(***************************************************************************)
EXTENDS Integers, Sequences, FiniteSets, TLC

VARIABLES
    frontend,   \* which of the two source files runs: "curses" or "win"
    pc,         \* where the process waits: "key" (run loop), "g" (second key
                \* of gg), "cmd" (get_command loop of ted.py), "line" (input()
                \* of get_command of ted-win.py), "exit", "fault"
    content,    \* self.content
    cursor_y,   \* self.cursor_y
    cursor_x,   \* self.cursor_x
    mode,       \* self.mode
    dirty,      \* self.dirty
    quit,       \* self.quit
    message,    \* self.message
    filename,   \* self.filename (None and "" are both the empty sequence)
    cmd,        \* the local cmd of get_command of ted.py (empty outside it)
    disk,       \* the file at path "a": [exists, data]
    last,       \* history: the buffer change the last dispatch made, if any
    saved,      \* history: the successful saves of this process since the
                \* buffer last changed: how many, and what the last one wrote
    clean,      \* history: the lines at the last successful save of this
                \* process, or at its start when none has succeeded yet
    term,       \* the terminal: "editor" (curses: noecho, cbreak, keypad) or
                \* "cooked" (as the shell left it)
    status,     \* the exit status of the process (0 while it runs)
    hl,         \* one line given to the highlighter: the line, the rules of
                \* self.syntax_rules, and once rendered what the screen shows
    leave       \* the user's decision to leave: whether it was taken, where the
                \* editor was then, the keys still to press, the file then

vars == <<frontend, pc, content, cursor_y, cursor_x, mode, dirty, quit,
          message, filename, cmd, disk, last, saved, clean, term, status, hl, leave>>

(***************************************************************************)
(* Bounds of the model.                                                    *)
(***************************************************************************)
\* the session specification Spec: lines and characters in the buffer
MaxLines == 2

MaxChars == 1

\* the editing specification SpecEdit: lines and characters in the buffer
EditLines == 3

EditChars == 3

\* the highlighting specification SpecColor: length of the line, number of
\* rules
MaxLineLen == 3

MaxRules == 2

\* the printable characters typed into the buffer in SpecEdit
TextChars == {"a", "b"}

\* the printable character typed into the buffer in Spec
SessionChars == {"b"}

\* the file name the user passes or types
FileA == <<"a">>

NoName == <<>>

\* the command texts the user types after ':' (ted.py reads them key by key)
CmdTexts == { <<>>, <<"q">>, <<"q", "!">>, <<"w">>, <<"w", "q">>,
              <<"w", " ">>, <<"w", " ", "a">>, <<"x">> }

CmdChars == {"q", "!", "w", " ", "a", "x"}

\* what input() of ted-win.py returns when the user pressed Escape after
\* typing text and then Enter: the console has erased the line on Escape,
\* or the escape character is part of the line
EscapedLines(text) == { <<>>, text \o <<"KEY_ESC">> }

\* the lines input() returns in ted-win.py
WinLines == CmdTexts \cup EscapedLines(<<"q", "!">>)

\* the answers the user gives to the "Enter filename: " prompt of ted-win.py
NameInputs == {NoName, FileA}

\* the messages of the exceptions open()/write() raise
IOErrors == {"Permission denied"}

ErrNoSuchFile == "No such file or directory"

\* the files found at path "a" when the editor starts
InitFiles == { <<>>, <<"b", "\r", "\n">> }

(***************************************************************************)
(* Python built-ins used by the source.                                    *)
(***************************************************************************)
Min(a, b) == IF a <= b THEN a ELSE b

Max(a, b) == IF a >= b THEN a ELSE b

\* s[i:j] for 0 <= i, j
Slice(s, i, j) == SubSeq(s, i + 1, Min(j, Len(s)))

\* mutant: the character is appended to the line
StrInsert_Append(line, x, c) == line \o <<c>>

\* line[:x] + c + line[x:]
StrInsert(line, x, c) == Slice(line, 0, x) \o <<c>> \o Slice(line, x, Len(line))

\* line[:x] + line[x+1:]
StrDelete(line, x) == Slice(line, 0, x) \o Slice(line, x + 1, Len(line))

\* list.insert(i, e)
ListInsert(list, i, e) == Slice(list, 0, i) \o <<e>> \o Slice(list, i, Len(list))

\* del list[i]
ListDelete(list, i) == Slice(list, 0, i) \o Slice(list, i + 1, Len(list))

\* list[i] = e
ListSet(list, i, e) == [list EXCEPT ![i + 1] = e]

RECURSIVE Join(_)
\* "\n".join(lines)
Join(lines) ==
    IF lines = <<>> THEN <<>>
    ELSE IF Len(lines) = 1 THEN lines[1]
    ELSE lines[1] \o <<"\n">> \o Join(Tail(lines))

LineBoundaries == {"\n", "\r"}

RECURSIVE SplitFrom(_, _, _, _)
SplitFrom(text, i, cur, acc) ==
    IF i > Len(text) THEN (IF cur = <<>> THEN acc ELSE Append(acc, cur))
    ELSE IF text[i] = "\r" /\ i < Len(text) /\ text[i + 1] = "\n"
         THEN SplitFrom(text, i + 2, <<>>, Append(acc, cur))
    ELSE IF text[i] \in LineBoundaries
         THEN SplitFrom(text, i + 1, <<>>, Append(acc, cur))
    ELSE SplitFrom(text, i + 1, Append(cur, text[i]), acc)

\* str.splitlines(): a line ends at each boundary; no empty last line
SplitLines(text) == SplitFrom(text, 1, <<>>, <<>>)

RECURSIVE LStrip(_)
LStrip(s) == IF s # <<>> /\ s[1] = " " THEN LStrip(Tail(s)) ELSE s

RECURSIVE RStrip(_)
RStrip(s) == IF s # <<>> /\ s[Len(s)] = " " THEN RStrip(SubSeq(s, 1, Len(s) - 1)) ELSE s

\* str.strip()
Strip(s) == RStrip(LStrip(s))

\* str.startswith
StartsWith(s, p) == Len(s) >= Len(p) /\ SubSeq(s, 1, Len(p)) = p

RECURSIVE TotalChars(_)
TotalChars(lines) == IF lines = <<>> THEN 0 ELSE Len(lines[1]) + TotalChars(Tail(lines))

\* the buffers a specification explores
Fits(lines, maxLines, maxChars) == Len(lines) <= maxLines /\ TotalChars(lines) <= maxChars

(***************************************************************************)
(* Messages: sequences of strings, concatenated as the f-strings are.      *)
(***************************************************************************)
MsgNone == <<>>

MsgNoWrite == <<"No write since last change (add ! to override)">>

MsgEnterName == <<"Enter filename: ">>

MsgWritten(fn, n) == <<"'">> \o fn \o <<"' ", ToString(n), "L written">>

MsgWriteErr(e) == <<"Error writing file: ", e>>

\* mutant: the message leaves the command text out
MsgNotCmd_NoText(text) == <<"Not an editor command: ">>

MsgNotCmd(text) == <<"Not an editor command: ">> \o text

(***************************************************************************)
(* History of the last dispatch: which buffer-changing branch ran ("none"  *)
(* for motions, mode changes, ignored keys and commands); for Enter also   *)
(* the buffer and cursor it started from.  Two dispatches that change no   *)
(* buffer are recorded too: "esc", Escape in Normal mode, and "clamp", a   *)
(* vertical motion onto a line shorter than the column it came with.       *)
(***************************************************************************)
Change(op) == [op |-> op, content |-> <<>>, y |-> 0, x |-> 0]

NoChange == Change("none")

Did(op) == last' = Change(op)

DidEnter(c, y, x) == last' = [op |-> "enter", content |-> c, y |-> y, x |-> x]

\* a vertical motion arrived with column x on line
Moved(x, line) == Did(IF x > Len(line) THEN "clamp" ELSE "none")

\* no line is being rendered
NoLine == [line |-> <<>>, rules |-> <<>>, shown |-> FALSE, screen |-> <<>>]

\* no save yet, or the buffer has changed since
\* the user has not decided to leave
NotLeaving == [on |-> FALSE, from |-> "", keys |-> <<>>, disk |-> [exists |-> FALSE, data |-> <<>>]]

NoSave == [n |-> 0, fn |-> <<>>, data |-> <<>>]

\* one more successful save, of data to fn; saves to another name start anew
SavedAgain(s, fn, data) ==
    [n |-> IF s.n > 0 /\ s.fn = fn THEN 2 ELSE 1, fn |-> fn, data |-> data]

(***************************************************************************)
(* Ted.__init__                                                            *)
(***************************************************************************)
NoFile == [exists |-> FALSE, data |-> <<>>]

File(data) == [exists |-> TRUE, data |-> data]

\* f.read().splitlines(), an empty result coerced to [""]
LoadLines(data) == IF SplitLines(data) = <<>> THEN <<<<>>>> ELSE SplitLines(data)

\* the buffer after construction with argument fn
InitialContent(fn, d) == IF fn # NoName /\ d.exists THEN LoadLines(d.data) ELSE <<<<>>>>

\* curses.initscr(), noecho(), cbreak(), keypad(True) in ted.py; ted-win.py
\* leaves the terminal alone
TermAtStart(fe) == IF fe = "curses" THEN "editor" ELSE "cooked"

Construct(fn) ==
    /\ filename' = fn
    /\ content' = InitialContent(fn, disk)
    /\ mode' = "normal"
    /\ cursor_y' = 0
    /\ cursor_x' = 0
    /\ message' = MsgNone
    /\ quit' = FALSE
    /\ dirty' = FALSE
    /\ cmd' = <<>>
    /\ pc' = "key"
    /\ last' = NoChange
    /\ saved' = NoSave
    /\ clean' = content'
    /\ term' = TermAtStart(frontend)
    /\ status' = 0

Init ==
    /\ frontend \in {"curses", "win"}
    /\ disk \in {NoFile} \cup {File(d) : d \in InitFiles}
    /\ filename \in {NoName, FileA}
    /\ content = InitialContent(filename, disk)
    /\ mode = "normal"
    /\ cursor_y = 0
    /\ cursor_x = 0
    /\ message = MsgNone
    /\ quit = FALSE
    /\ dirty = FALSE
    /\ cmd = <<>>
    /\ pc = "key"
    /\ last = NoChange
    /\ saved = NoSave
    /\ clean = content
    /\ term = TermAtStart(frontend)
    /\ status = 0
    /\ hl = NoLine
    /\ leave = NotLeaving

(***************************************************************************)
(* Ted.ensure_cursor_in_bounds: run at the top of both handlers in ted.py, *)
(* and by display() before every key read in ted-win.py.                   *)
(***************************************************************************)
\* mutant: the row is moved to the last line
EnsureY_LastRow == Len(content) - 1

EnsureY == Max(0, Min(cursor_y, Len(content) - 1))

\* mutant: the column is moved to the end of the line
EnsureX_LineEnd == Len(content[EnsureY + 1])

EnsureX == Max(0, Min(cursor_x, Len(content[EnsureY + 1])))

LineAt(y) == content[y + 1]

\* mutant: a vertical motion that goes to the start of the line
ReclampX_Home(x, line) == 0

\* mutant: a vertical motion that keeps the column
ReclampX_Keep(x, line) == x

\* the column after a vertical motion to line
ReclampX(x, line) == Min(x, Len(line))

(***************************************************************************)
(* Ted.save_file and Ted.process_command                                   *)
(***************************************************************************)
\* mutant: the file is opened for appending
WriteOutcomes_Append(fn) ==
    IF fn = FileA
    THEN {[ok |-> TRUE, err |-> "", disk |-> File(disk.data \o Join(content))]}
         \cup {[ok |-> FALSE, err |-> e, disk |-> d] :
                 e \in IOErrors, d \in {disk, File(<<>>)}}
    ELSE {[ok |-> FALSE, err |-> ErrNoSuchFile, disk |-> disk]}

\* what open(fn, 'w') and f.write can do: write the joined lines, or raise
\* with the file untouched (open failed) or truncated (write failed)
WriteOutcomes(fn) ==
    IF fn = FileA
    THEN {[ok |-> TRUE, err |-> "", disk |-> File(Join(content))]}
         \cup {[ok |-> FALSE, err |-> e, disk |-> d] :
                 e \in IOErrors, d \in {disk, File(<<>>)}}
    ELSE {[ok |-> FALSE, err |-> ErrNoSuchFile, disk |-> disk]}

\* mutant: dirty cleared by the failed saves instead of the successful ones
DirtyAfterSave_Inverted(ok, d) == IF ok THEN d ELSE FALSE

\* mutant: dirty cleared before the write is known to have succeeded
DirtyAfterSave_Cleared(ok, d) == FALSE

\* self.dirty after save_file
DirtyAfterSave(ok, d) == IF ok THEN FALSE ELSE d

\* self.message after save_file
MessageAfterSave(ok, fn, n, e) == IF ok THEN MsgWritten(fn, n) ELSE MsgWriteErr(e)

\* save_file() when open/write behave as out
SaveFileAs(fn, out) ==
    /\ disk' = out.disk
    /\ message' = MessageAfterSave(out.ok, fn, Len(content), out.err)
    /\ dirty' = DirtyAfterSave(out.ok, dirty)
    /\ saved' = IF out.ok THEN SavedAgain(saved, fn, out.disk.data) ELSE saved
    /\ clean' = IF out.ok THEN content ELSE clean

SaveFile(fn) == \E out \in WriteOutcomes(fn) : SaveFileAs(fn, out)

\* mutant: q quits whatever dirty is
QuitOnQ_Always(d) == TRUE

\* self.quit after the command q
QuitOnQ(d) == ~d

\* self.quit after the command wq, once save_file has returned
QuitAfterWq(ok) == TRUE

\* the run loop ends when self.quit is set
AfterDispatch(q) == IF q THEN "exit" ELSE "key"

\* mutant: the terminal is left as it is
Cleanup_Skipped == term

\* the terminal after cleanup(): nocbreak(), keypad(False), echo(), endwin()
Cleanup == "cooked"

\* the terminal when run() is left: ted.py runs cleanup() in the finally
\* clause (and in the except clause before it), ted-win.py has none
TermAfterRun == IF frontend = "curses" THEN Cleanup ELSE term

\* back in run() after a dispatch that left self.quit = q
Loop(q) ==
    /\ pc' = AfterDispatch(q)
    /\ term' = IF q THEN TermAfterRun ELSE term
    /\ UNCHANGED status

\* an AttributeError (ted.py calls methods it does not define) reaches the
\* except clause of run(): cleanup, exit status 1
Fault(msg) ==
    /\ pc' = "fault"
    /\ term' = TermAfterRun
    /\ status' = 1
    /\ message' = msg
    /\ UNCHANGED <<filename, dirty, disk, quit, saved, clean>>

\* process_command(text); msg0 is self.message when it is called
ProcessCommand(text, msg0) ==
    IF text = <<"q">> THEN
        /\ quit' = QuitOnQ(dirty)
        /\ message' = IF dirty THEN MsgNoWrite ELSE msg0
        /\ Loop(quit')
        /\ UNCHANGED <<filename, dirty, disk, saved, clean>>
    ELSE IF text = <<"q", "!">> THEN
        /\ quit' = TRUE
        /\ message' = msg0
        /\ Loop(quit')
        /\ UNCHANGED <<filename, dirty, disk, saved, clean>>
    ELSE IF text = <<"w">> THEN
        IF filename # NoName THEN
            /\ SaveFile(filename)
            /\ Loop(quit)
            /\ UNCHANGED <<filename, quit>>
        ELSE IF frontend = "curses" THEN
            Fault(MsgEnterName)
        ELSE
            \E name \in NameInputs :
                IF name # NoName THEN
                    /\ filename' = name
                    /\ SaveFile(name)
                    /\ Loop(quit)
                    /\ UNCHANGED quit
                ELSE
                    /\ message' = MsgEnterName
                    /\ Loop(quit)
                    /\ UNCHANGED <<filename, dirty, disk, quit, saved, clean>>
    ELSE IF text = <<"w", "q">> THEN
        IF filename # NoName THEN
            \E out \in WriteOutcomes(filename) :
                /\ SaveFileAs(filename, out)
                /\ quit' = QuitAfterWq(out.ok)
                /\ Loop(quit')
                /\ UNCHANGED filename
        ELSE IF frontend = "curses" THEN
            Fault(msg0)
        ELSE
            \E name \in NameInputs :
                IF name # NoName THEN
                    \E out \in WriteOutcomes(name) :
                        /\ filename' = name
                        /\ SaveFileAs(name, out)
                        /\ quit' = QuitAfterWq(out.ok)
                        /\ Loop(quit')
                ELSE
                    /\ message' = MsgEnterName
                    /\ Loop(quit)
                    /\ UNCHANGED <<filename, dirty, disk, quit, saved, clean>>
    ELSE IF StartsWith(text, <<"w", " ">>) THEN
        /\ filename' = Strip(Slice(text, 2, Len(text)))
        /\ SaveFile(filename')
        /\ Loop(quit)
        /\ UNCHANGED quit
    ELSE
        /\ message' = MsgNotCmd(text)
        /\ Loop(quit)
        /\ UNCHANGED <<filename, dirty, disk, quit, saved, clean>>

(***************************************************************************)
(* Ted.handle_normal_mode                                                  *)
(***************************************************************************)
\* mutant: a key that changes the buffer leaves dirty as it was
Edit_DirtyKept(c, y, x, m, d) ==
    /\ content' = c
    /\ cursor_y' = y
    /\ cursor_x' = x
    /\ mode' = m
    /\ dirty' = dirty
    /\ saved' = IF c # content THEN NoSave ELSE saved
    /\ clean' = clean

\* the editing state after a key
Edit(c, y, x, m, d) ==
    /\ content' = c
    /\ cursor_y' = y
    /\ cursor_x' = x
    /\ mode' = m
    /\ dirty' = d
    /\ saved' = IF c # content THEN NoSave ELSE saved
    /\ clean' = clean

\* display() shows and clears the message before the key is read
Quiet(next) ==
    /\ message' = MsgNone
    /\ pc' = next
    /\ UNCHANGED <<frontend, quit, filename, cmd, disk, term, status>>

KeyLeft == "KEY_LEFT"

KeyRight == "KEY_RIGHT"

KeyUp == "KEY_UP"

KeyDown == "KEY_DOWN"

KeyEnter == "KEY_ENTER"

KeyBackspace == "KEY_BACKSPACE"

KeyEsc == "KEY_ESC"

\* a key neither handler knows (a tab)
KeyOther == "\t"

ControlKeys == {KeyLeft, KeyRight, KeyUp, KeyDown, KeyEnter, KeyBackspace, KeyEsc, KeyOther}

NormalKeys == {"i", "a", "h", "j", "k", "l", ":", "x", "o", "O", "$", "0", "G", "g", "z"}
              \cup ControlKeys

\* mutant: x removes the unit after the cursor's
DeleteUnderCursor_Next(c, y, x) == ListSet(c, y, StrDelete(c[y + 1], x + 1))

\* content after x at (y, x)
DeleteUnderCursor(c, y, x) == ListSet(c, y, StrDelete(c[y + 1], x))

\* content after o at row y
OpenBelow(c, y) == ListInsert(c, y + 1, <<>>)

\* mutant: O opens the line below, as o does
OpenAbove_Below(c, y) == ListInsert(c, y + 1, <<>>)

\* content after O at row y
OpenAbove(c, y) == ListInsert(c, y, <<>>)

\* the ':' key: ted.py enters the get_command loop, ted-win.py reads a whole
\* line with input() and executes it
\* get_command of ted-win.py when input() returns text
RunLine(y, x, text) ==
    /\ content' = content
    /\ cursor_y' = y
    /\ cursor_x' = x
    /\ mode' = mode
    /\ Did("none")
    /\ cmd' = <<>>
    /\ ProcessCommand(text, MsgNone)
    /\ UNCHANGED frontend

\* get_command of ted.py starts its loop with an empty cmd
EnterCommandLine(y, x) ==
    /\ content' = content
    /\ cursor_y' = y
    /\ cursor_x' = x
    /\ mode' = mode
    /\ Did("none")
    /\ cmd' = <<>>
    /\ pc' = "cmd"
    /\ message' = MsgNone
    /\ UNCHANGED <<frontend, quit, filename, dirty, disk, saved, clean, term, status>>

Colon(y, x) ==
    IF frontend = "curses"
    THEN EnterCommandLine(y, x)
    ELSE \E text \in WinLines : RunLine(y, x, text)

HandleNormal(key) ==
    /\ pc = "key" /\ mode = "normal"
    /\ LET y == EnsureY
           x == EnsureX
           line == LineAt(EnsureY)
           last_y == Len(content) - 1
       IN
       IF key = "i" THEN
           Edit(content, y, x, "insert", dirty) /\ Did("none") /\ Quiet("key")
       ELSE IF key = "a" /\ frontend = "curses" THEN
           Edit(content, y, Min(Len(line), x + 1), "insert", dirty) /\ Did("none") /\ Quiet("key")
       ELSE IF key \in {"h", KeyLeft} THEN
           Edit(content, y, Max(0, x - 1), mode, dirty) /\ Did("none") /\ Quiet("key")
       ELSE IF key \in {"j", KeyDown} THEN
           Edit(content, Min(last_y, y + 1), ReclampX(x, LineAt(Min(last_y, y + 1))), mode, dirty)
           /\ Moved(x, LineAt(Min(last_y, y + 1))) /\ Quiet("key")
       ELSE IF key \in {"k", KeyUp} THEN
           Edit(content, Max(0, y - 1), ReclampX(x, LineAt(Max(0, y - 1))), mode, dirty)
           /\ Moved(x, LineAt(Max(0, y - 1))) /\ Quiet("key")
       ELSE IF key \in {"l", KeyRight} THEN
           Edit(content, y, Min(Len(line), x + 1), mode, dirty) /\ Did("none") /\ Quiet("key")
       ELSE IF key = ":" THEN
           Colon(y, x)
       ELSE IF key = "x" THEN
           IF x < Len(line)
           THEN Edit(DeleteUnderCursor(content, y, x), y, x, mode, TRUE) /\ Did("x") /\ Quiet("key")
           ELSE Edit(content, y, x, mode, dirty) /\ Did("none") /\ Quiet("key")
       ELSE IF key = "o" THEN
           Edit(OpenBelow(content, y), y + 1, 0, "insert", TRUE) /\ Did("o") /\ Quiet("key")
       ELSE IF key = "O" THEN
           Edit(OpenAbove(content, y), y, 0, "insert", TRUE) /\ Did("O") /\ Quiet("key")
       ELSE IF key = "$" THEN
           Edit(content, y, Len(line), mode, dirty) /\ Did("none") /\ Quiet("key")
       ELSE IF key = "0" THEN
           Edit(content, y, 0, mode, dirty) /\ Did("none") /\ Quiet("key")
       ELSE IF key = "G" THEN
           Edit(content, last_y, ReclampX(x, LineAt(last_y)), mode, dirty)
           /\ Moved(x, LineAt(last_y)) /\ Quiet("key")
       ELSE IF key = "g" THEN
           Edit(content, y, x, mode, dirty) /\ Did("none") /\ Quiet("g")
       ELSE IF key = KeyEsc THEN
           Edit(content, y, x, mode, dirty) /\ Did("esc") /\ Quiet("key")
       ELSE
           Edit(content, y, x, mode, dirty) /\ Did("none") /\ Quiet("key")

\* the second key of gg, read inside the handler of the first
HandleG(key) ==
    /\ pc = "g"
    /\ IF key = "g"
       THEN Edit(content, 0, ReclampX(cursor_x, LineAt(0)), mode, dirty)
            /\ Moved(cursor_x, LineAt(0))
       ELSE Edit(content, cursor_y, cursor_x, mode, dirty) /\ Did("none")
    /\ pc' = "key"
    /\ UNCHANGED <<frontend, quit, filename, cmd, disk, message, term, status>>

(***************************************************************************)
(* Ted.handle_insert_mode                                                  *)
(***************************************************************************)
InsertKeys == TextChars \cup ControlKeys

SessionInsertKeys == SessionChars \cup ControlKeys

\* content after Backspace at column x > 0 of row y
DeleteBefore(c, y, x) == ListSet(c, y, StrDelete(c[y + 1], x - 1))

\* content after Backspace at column 0 of row y > 0
MergeLines(c, y) == ListDelete(ListSet(c, y - 1, c[y] \o c[y + 1]), y)

\* mutant: the cursor goes to the start of the merged line
MergeColumn_Start(c, y) == 0

\* the column after that Backspace: the length row y - 1 had
MergeColumn(c, y) == Len(c[y])

\* mutant: the new line starts one unit late
SplitLine_DropsUnit(c, y, x) ==
    ListSet(ListInsert(c, y + 1, Slice(c[y + 1], x + 1, Len(c[y + 1]))), y, Slice(c[y + 1], 0, x))

\* content after Enter at (y, x)
SplitLine(c, y, x) ==
    ListSet(ListInsert(c, y + 1, Slice(c[y + 1], x, Len(c[y + 1]))), y, Slice(c[y + 1], 0, x))

\* content after the printable character ch typed at (y, x)
InsertChar(c, y, x, ch) == ListSet(c, y, StrInsert(c[y + 1], x, ch))

HandleInsert(key) ==
    /\ pc = "key" /\ mode = "insert"
    /\ Quiet("key")
    /\ LET y == EnsureY
           x == EnsureX
           line == LineAt(EnsureY)
           last_y == Len(content) - 1
       IN
       IF key = KeyEsc THEN
           Edit(content, y, x, "normal", dirty) /\ Did("none")
       ELSE IF key = KeyBackspace THEN
           IF x > 0 THEN
               Edit(DeleteBefore(content, y, x), y, x - 1, mode, TRUE) /\ Did("backspace")
           ELSE IF y > 0 THEN
               Edit(MergeLines(content, y), y - 1, MergeColumn(content, y), mode, TRUE)
               /\ Did("merge")
           ELSE
               Edit(content, y, x, mode, dirty) /\ Did("none")
       ELSE IF key = KeyEnter THEN
           Edit(SplitLine(content, y, x), y + 1, 0, mode, TRUE) /\ DidEnter(content, y, x)
       ELSE IF key = KeyLeft THEN
           Edit(content, y, Max(0, x - 1), mode, dirty) /\ Did("none")
       ELSE IF key = KeyRight THEN
           Edit(content, y, Min(Len(line), x + 1), mode, dirty) /\ Did("none")
       ELSE IF key = KeyUp THEN
           Edit(content, Max(0, y - 1), ReclampX(x, LineAt(Max(0, y - 1))), mode, dirty)
           /\ Moved(x, LineAt(Max(0, y - 1)))
       ELSE IF key = KeyDown THEN
           Edit(content, Min(last_y, y + 1), ReclampX(x, LineAt(Min(last_y, y + 1))), mode, dirty)
           /\ Moved(x, LineAt(Min(last_y, y + 1)))
       ELSE IF key \in TextChars THEN
           Edit(InsertChar(content, y, x, key), y, x + 1, mode, TRUE) /\ Did("char")
       ELSE
           Edit(content, y, x, mode, dirty) /\ Did("none")

(***************************************************************************)
(* Ted.get_command of ted.py: the command text is read key by key          *)
(***************************************************************************)
\* what the user has typed so far on the way to one of CmdTexts
CmdPrefixes == UNION {{SubSeq(t, 1, n) : n \in 0..Len(t)} : t \in CmdTexts}

CommandKeys == CmdChars \cup ControlKeys

HandleCommandKey(key) ==
    /\ pc = "cmd"
    /\ Did("none")
    /\ UNCHANGED <<frontend, content, cursor_y, cursor_x, mode>>
    /\ IF key = KeyEnter THEN
           /\ ProcessCommand(cmd, message)
           /\ cmd' = <<>>
       ELSE IF key = KeyBackspace THEN
           /\ cmd' = Slice(cmd, 0, Len(cmd) - 1)
           /\ UNCHANGED <<pc, quit, message, filename, dirty, disk, saved, clean, term, status>>
       ELSE IF key = KeyEsc THEN
           /\ pc' = "key"
           /\ cmd' = <<>>
           /\ UNCHANGED <<quit, message, filename, dirty, disk, saved, clean, term, status>>
       ELSE IF key \in CmdChars THEN
           /\ cmd \o <<key>> \in CmdPrefixes
           /\ cmd' = cmd \o <<key>>
           /\ UNCHANGED <<pc, quit, message, filename, dirty, disk, saved, clean, term, status>>
       ELSE
           UNCHANGED <<pc, cmd, quit, message, filename, dirty, disk, saved, clean, term, status>>

(***************************************************************************)
(* The process ended (quit, or the fault path of run); the editor is       *)
(* started again on the same file system.                                  *)
(***************************************************************************)
Start(fn) ==
    /\ pc \in {"exit", "fault"}
    /\ Construct(fn)
    /\ UNCHANGED <<frontend, disk>>

(***************************************************************************)
(* Spec: the whole session, commands, saves and restarts included, on      *)
(* small buffers.                                                          *)
(***************************************************************************)
InBounds == Fits(content', MaxLines, MaxChars)

NormalStep == \E key \in NormalKeys : HandleNormal(key) /\ InBounds /\ UNCHANGED <<hl, leave>>

GStep == \E key \in NormalKeys : HandleG(key) /\ UNCHANGED <<hl, leave>>

InsertStep == \E key \in SessionInsertKeys : HandleInsert(key) /\ InBounds /\ UNCHANGED <<hl, leave>>

CommandStep == \E key \in CommandKeys : HandleCommandKey(key) /\ UNCHANGED <<hl, leave>>

StartStep == \E fn \in NameInputs : Start(fn) /\ UNCHANGED <<hl, leave>>

Next == NormalStep \/ GStep \/ InsertStep \/ CommandStep \/ StartStep

Spec == Init /\ [][Next]_vars

(***************************************************************************)
(* SpecEdit: the two key handlers on larger buffers, no command line.      *)
(***************************************************************************)
InitEdit == Init /\ filename = NoName /\ disk = NoFile

InEditBounds == Fits(content', EditLines, EditChars)

EditNormalStep == \E key \in NormalKeys \ {":"} : HandleNormal(key) /\ InEditBounds /\ UNCHANGED <<hl, leave>>

EditInsertStep == \E key \in InsertKeys : HandleInsert(key) /\ InEditBounds /\ UNCHANGED <<hl, leave>>

NextEdit == EditNormalStep \/ GStep \/ EditInsertStep

SpecEdit == InitEdit /\ [][NextEdit]_vars

(***************************************************************************)
(* Syntax highlighting of one line.  A rule is a compiled pattern and a    *)
(* color; the pattern is a character class and finditer() yields its       *)
(* maximal runs in the line, as spans <<start, end>> (0-based, end         *)
(* exclusive).  The screen is a sequence of cells [ch, color].             *)
(***************************************************************************)
RuleColors == {"1", "2"}

Rules == [cls : (SUBSET TextChars) \ {{}}, color : RuleColors]

NoColor == "none"

RECURSIVE RunEnd(_, _, _)
\* the end of the run of cls that holds position i (1-based)
RunEnd(line, cls, i) ==
    IF i < Len(line) /\ line[i + 1] \in cls THEN RunEnd(line, cls, i + 1) ELSE i

RECURSIVE FindFrom(_, _, _, _)
FindFrom(line, cls, i, acc) ==
    IF i > Len(line) THEN acc
    ELSE IF line[i] \in cls
         THEN FindFrom(line, cls, RunEnd(line, cls, i) + 1,
                       Append(acc, <<i - 1, RunEnd(line, cls, i)>>))
    ELSE FindFrom(line, cls, i + 1, acc)

\* [match.span() for match in pattern.finditer(line)]
FindIter(line, cls) == FindFrom(line, cls, 1, <<>>)

\* stdscr.addstr(y, at, text, attr) on a row wider than the line
AddStr(screen, at, text, color) ==
    [i \in 1..Len(screen) |->
        IF i > at /\ i <= at + Len(text)
        THEN [ch |-> text[i - at], color |-> color]
        ELSE screen[i]]

\* the row after stdscr.erase()
Erased(n) == [i \in 1..n |-> [ch |-> " ", color |-> NoColor]]

\* the body of the inner loop of display_line of ted.py for one match
DrawMatch(st, line, span, color) ==
    LET gap == IF span[1] > st.pos
               THEN AddStr(st.screen, st.pos, Slice(line, st.pos, span[1]), NoColor)
               ELSE st.screen
    IN [pos |-> span[2],
        screen |-> AddStr(gap, span[1], Slice(line, span[1], span[2]), color)]

RECURSIVE DrawMatches(_, _, _, _)
DrawMatches(st, line, spans, color) ==
    IF spans = <<>> THEN st
    ELSE DrawMatches(DrawMatch(st, line, spans[1], color), line, Tail(spans), color)

RECURSIVE DrawRules(_, _, _)
DrawRules(st, line, rules) ==
    IF rules = <<>> THEN st
    ELSE DrawRules(DrawMatches(st, line, FindIter(line, rules[1].cls), rules[1].color),
                   line, Tail(rules))

\* display_line of ted.py: the cells of the row
DisplayLine(line, rules) ==
    IF rules = <<>> THEN AddStr(Erased(Len(line)), 0, line, NoColor)
    ELSE LET st == DrawRules([pos |-> 0, screen |-> Erased(Len(line))], line, rules)
         IN IF st.pos < Len(line)
            THEN AddStr(st.screen, st.pos, Slice(line, st.pos, Len(line)), NoColor)
            ELSE st.screen

\* colorama: Fore.RED is ESC [ 3 1 m, Fore.GREEN ESC [ 3 2 m, Fore.RESET
\* ESC [ 3 9 m
Fore(c) == <<"ESC", "[", "3", c, "m">>

ForeReset == Fore("9")

\* the body of the inner loop of apply_syntax_highlighting of ted-win.py
Splice(colored, line, span, color) ==
    Slice(colored, 0, span[1]) \o Fore(color) \o Slice(line, span[1], span[2])
    \o ForeReset \o Slice(colored, span[2], Len(colored))

RECURSIVE SpliceMatches(_, _, _, _)
SpliceMatches(colored, line, spans, color) ==
    IF spans = <<>> THEN colored
    ELSE SpliceMatches(Splice(colored, line, spans[1], color), line, Tail(spans), color)

RECURSIVE SpliceRules(_, _, _)
SpliceRules(colored, line, rules) ==
    IF rules = <<>> THEN colored
    ELSE SpliceRules(SpliceMatches(colored, line, FindIter(line, rules[1].cls), rules[1].color),
                     line, Tail(rules))

\* apply_syntax_highlighting of ted-win.py: the string that is printed
ApplySyntaxHighlighting(line, rules) ==
    IF rules = <<>> \/ line = <<>> THEN line ELSE SpliceRules(line, line, rules)

\* a complete color sequence starts at position i of the printed string
IsFore(out, i) ==
    /\ i + 4 <= Len(out)
    /\ out[i] = "ESC" /\ out[i + 1] = "[" /\ out[i + 2] = "3"
    /\ out[i + 3] \in RuleColors \cup {"9"}
    /\ out[i + 4] = "m"

RECURSIVE Printed(_, _, _, _)
\* the cells the terminal shows for the printed string: a complete color
\* sequence sets the color, every other unit is shown
Printed(out, i, color, acc) ==
    IF i > Len(out) THEN acc
    ELSE IF IsFore(out, i)
         THEN Printed(out, i + 5, IF out[i + 3] = "9" THEN NoColor ELSE out[i + 3], acc)
    ELSE Printed(out, i + 1, color, Append(acc, [ch |-> out[i], color |-> color]))

\* what the screen shows for the line
Shown(fe, line, rules) ==
    IF fe = "curses" THEN DisplayLine(line, rules)
    ELSE Printed(ApplySyntaxHighlighting(line, rules), 1, NoColor, <<>>)

\* the lines and rule lists given to the highlighter
LinesUpTo(n) == UNION {[1..k -> TextChars] : k \in 0..n}

RuleListsUpTo(n) == UNION {[1..k -> Rules] : k \in 0..n}

\* display() renders the line
RenderLine ==
    /\ ~hl.shown
    /\ hl' = [hl EXCEPT !.shown = TRUE, !.screen = Shown(frontend, hl.line, hl.rules)]
    /\ UNCHANGED <<frontend, pc, content, cursor_y, cursor_x, mode, dirty, quit,
                   message, filename, cmd, disk, last, saved, clean, term, status, leave>>

\* the next display() has another line to render
NextLine ==
    /\ hl.shown
    /\ \E line \in LinesUpTo(MaxLineLen), rules \in RuleListsUpTo(MaxRules) :
          hl' = [line |-> line, rules |-> rules, shown |-> FALSE, screen |-> <<>>]
    /\ UNCHANGED <<frontend, pc, content, cursor_y, cursor_x, mode, dirty, quit,
                   message, filename, cmd, disk, last, saved, clean, term, status, leave>>

InitColor ==
    /\ frontend \in {"curses", "win"}
    /\ disk = NoFile
    /\ filename = NoName
    /\ content = InitialContent(filename, disk)
    /\ mode = "normal" /\ cursor_y = 0 /\ cursor_x = 0
    /\ message = MsgNone /\ quit = FALSE /\ dirty = FALSE
    /\ cmd = <<>> /\ pc = "key" /\ last = NoChange /\ saved = NoSave /\ clean = content
    /\ term = TermAtStart(frontend) /\ status = 0 /\ leave = NotLeaving
    /\ hl \in [line : LinesUpTo(MaxLineLen), rules : RuleListsUpTo(MaxRules),
                shown : {FALSE}, screen : {<<>>}]

NextColor == RenderLine \/ NextLine

SpecColor == InitColor /\ [][NextColor]_vars

(***************************************************************************)
(* SpecLeave: the session, in which the user may at any moment decide to   *)
(* leave and from then on presses Escape, `:`, q, !, Enter and no other    *)
(* key.  In ted-win.py the command line is the input() call of             *)
(* get_command, which the process is inside of while the user types.       *)
(***************************************************************************)
LeaveKeys == <<KeyEsc, ":", "q", "!", KeyEnter>>

\* what the editor waits for: a key of a mode, the second key of gg, a key
\* of the command line of ted.py, the line of input() of ted-win.py
Waiting == IF pc = "key" THEN mode ELSE pc

\* ted-win.py, the `:` key: get_command prints the prompt and calls input();
\* text is what the user has typed into the line so far
OpenLine(text) ==
    /\ frontend = "win" /\ pc = "key" /\ mode = "normal"
    /\ pc' = "line"
    /\ cmd' = text
    /\ cursor_y' = EnsureY
    /\ cursor_x' = EnsureX
    /\ message' = MsgNone
    /\ Did("none")
    /\ UNCHANGED <<frontend, content, mode, dirty, quit, filename, disk, saved,
                   clean, term, status>>

\* a key typed into the line of input(): Enter returns the line to
\* get_command, which passes it to process_command; Escape is handled by
\* the console as in EscapedLines; any other key is added to the line
LineKey(key) ==
    /\ pc = "line"
    /\ IF key = KeyEnter THEN
           RunLine(cursor_y, cursor_x, cmd)
       ELSE
           /\ cmd' \in (IF key = KeyEsc THEN EscapedLines(cmd) ELSE {cmd \o <<key>>})
           /\ UNCHANGED <<frontend, pc, content, cursor_y, cursor_x, mode, dirty,
                          quit, message, filename, disk, last, saved, clean, term,
                          status>>

TypeLine == ~leave.on /\ (\E text \in CmdPrefixes : OpenLine(text)) /\ UNCHANGED <<hl, leave>>

EnterLine == ~leave.on /\ LineKey(KeyEnter) /\ UNCHANGED <<hl, leave>>

\* the user decides to leave; the process waits for a key
BeginLeave ==
    /\ ~leave.on
    /\ pc \in {"key", "g", "cmd", "line"}
    /\ leave' = [on |-> TRUE, from |-> Waiting, keys |-> LeaveKeys, disk |-> disk]
    /\ UNCHANGED <<frontend, pc, content, cursor_y, cursor_x, mode, dirty, quit,
                   message, filename, cmd, disk, last, saved, clean, term, status, hl>>

\* the next key of LeaveKeys goes to whatever reads keys at that moment
LeaveStep ==
    /\ leave.on
    /\ leave.keys # <<>>
    /\ leave' = [leave EXCEPT !.keys = Tail(leave.keys)]
    /\ LET key == Head(leave.keys)
       IN  IF frontend = "win" /\ Waiting = "normal" /\ key = ":"
           THEN OpenLine(<<>>)
           ELSE \/ HandleNormal(key)
                \/ HandleG(key)
                \/ HandleInsert(key)
                \/ HandleCommandKey(key)
                \/ LineKey(key)
    /\ UNCHANGED hl

NextLeave == (~leave.on /\ Next) \/ TypeLine \/ EnterLine \/ BeginLeave \/ LeaveStep

SpecLeave == Init /\ [][NextLeave]_vars

(***************************************************************************)
(* Steps named by what they execute.                                       *)
(***************************************************************************)
\* process_command(text) runs in this step: Enter in the get_command loop of
\* ted.py, or ':' followed by the input() line in ted-win.py
Execute(text) ==
    \/ frontend = "curses" /\ cmd = text /\ HandleCommandKey(KeyEnter)
    \/ /\ frontend = "win" /\ pc = "key" /\ mode = "normal"
       /\ RunLine(EnsureY, EnsureX, text)

\* save_file() runs in this step and open/write behave as out
Saves(out) == out \in WriteOutcomes(filename') /\ SaveFileAs(filename', out)

SaveCommands == { <<"w">>, <<"w", " ">>, <<"w", " ", "a">> }

AllOutcomes == WriteOutcomes(FileA) \cup WriteOutcomes(NoName)

\* the buffer with line e inserted so that it becomes row k (0-based)
WithRow(c, k, e) ==
    [i \in 1..Len(c) + 1 |-> IF i <= k THEN c[i] ELSE IF i = k + 1 THEN e ELSE c[i - 1]]

\* the buffer without row k (0-based)
WithoutRow(c, k) == [i \in 1..Len(c) - 1 |-> IF i <= k THEN c[i] ELSE c[i + 1]]

\* the line without the unit at column k (0-based)
WithoutUnit(line, k) == [i \in 1..Len(line) - 1 |-> IF i <= k THEN line[i] ELSE line[i + 1]]

\* the line with unit ch inserted at column k (0-based)
WithUnit(line, k, ch) ==
    [i \in 1..Len(line) + 1 |-> IF i <= k THEN line[i] ELSE IF i = k + 1 THEN ch ELSE line[i - 1]]

CurrentLine == content[cursor_y + 1]

(***************************************************************************)
(* Claims                                                                  *)
(***************************************************************************)

\* C1: in every state reached by key events in any mode, the buffer has at
\* least one line, 0 <= cursor_y < number of lines and
\* 0 <= cursor_x <= length of the cursor's line.
C1_CursorInBounds ==
    /\ Len(content) >= 1
    /\ 0 <= cursor_y
    /\ cursor_y < Len(content)
    /\ 0 <= cursor_x
    /\ cursor_x <= Len(content[cursor_y + 1])

\* a line-merging Backspace has just put the cursor at the end of a non-empty line
C1_Witness == last.op = "merge" /\ cursor_x > 0 /\ cursor_x = Len(CurrentLine)

\* C2: when the write of a wq command fails, quit stays false, dirty keeps
\* its value and the editor stays open showing the error message.
C2_WqQuitsOnlyWhenSaved ==
    [][\A out \in AllOutcomes :
         (~out.ok /\ Saves(out) /\ Execute(<<"w", "q">>))
         => (quit' = FALSE /\ dirty' = dirty /\ pc' = "key"
             /\ message' = MsgWriteErr(out.err))]_vars

\* C3: q sets quit exactly when dirty is false and otherwise sets the
\* "No write" message; q! sets quit whatever dirty is; neither writes the
\* file nor changes the lines, the cursor or dirty.
C3_QuitCommands ==
    [][/\ Execute(<<"q">>)
          => /\ quit' = ~dirty
             /\ dirty => message' = MsgNoWrite
             /\ UNCHANGED <<content, cursor_y, cursor_x, dirty, disk>>
       /\ Execute(<<"q", "!">>)
          => /\ quit' = TRUE
             /\ UNCHANGED <<content, cursor_y, cursor_x, dirty, disk>>]_vars

\* q was refused on a dirty buffer
C3_Witness == message = MsgNoWrite /\ dirty /\ ~quit /\ pc = "key"

\* C4: a successful save followed by a load of the same path yields exactly
\* the line sequence that was saved (here: the session ends by a successful
\* wq and the editor is started again on the file).
C4_SaveLoadRoundTrip ==
    [][(/\ pc = "exit"
        /\ filename # NoName
        /\ message = MsgWritten(filename, Len(content))
        /\ Start(filename))
       => content' = content]_vars

\* C5: when a save started by w or w <name> fails, lines, cursor and dirty
\* are as before, quit stays false and the message is
\* 'Error writing file: <underlying message>'.
C5_FailedSaveKeepsState ==
    [][\A text \in SaveCommands : \A out \in AllOutcomes :
         (~out.ok /\ Saves(out) /\ Execute(text))
         => (/\ UNCHANGED <<content, cursor_y, cursor_x, dirty>>
             /\ quit' = FALSE
             /\ message' = MsgWriteErr(out.err))]_vars

\* a save failed on a dirty buffer and the editor is still open
C5_Witness ==
    /\ \E e \in IOErrors : message = MsgWriteErr(e)
    /\ dirty /\ ~quit /\ pc = "key"

\* C6: Backspace in Insert mode at column 0 of row r > 0 appends line r to
\* line r-1, removes line r, puts the cursor at (r-1, former length of
\* line r-1) and sets dirty; at (0,0) it changes nothing.
C6_BackspaceMerge ==
    [][(HandleInsert(KeyBackspace) /\ cursor_x = 0)
       => IF cursor_y > 0
          THEN /\ content' = WithoutRow([content EXCEPT ![cursor_y] =
                                             content[cursor_y] \o content[cursor_y + 1]],
                                        cursor_y)
               /\ cursor_y' = cursor_y - 1
               /\ cursor_x' = Len(content[cursor_y])
               /\ dirty' = TRUE
          ELSE UNCHANGED <<content, cursor_y, cursor_x, dirty, mode>>]_vars

\* two lines were merged below the first row, onto a non-empty line
C6_Witness == last.op = "merge" /\ cursor_y > 0 /\ cursor_x > 0

\* C7: in Insert mode, Enter followed immediately by Backspace restores the
\* lines and the cursor that held before Enter.
C7_EnterBackspaceInverse ==
    [][(last.op = "enter" /\ HandleInsert(KeyBackspace))
       => (content' = last.content /\ cursor_y' = last.y /\ cursor_x' = last.x)]_vars

\* Enter has just split a line strictly inside it, below the first row
C7_Witness ==
    /\ last.op = "enter" /\ mode = "insert" /\ pc = "key"
    /\ last.y > 0 /\ last.x > 0 /\ last.x < Len(last.content[last.y + 1])

\* C8: in Normal mode, x with a unit under the cursor removes exactly that
\* unit, leaves the cursor and the other lines alone and sets dirty; at the
\* end of the line it changes nothing, dirty included.
C8_DeleteUnderCursor ==
    [][HandleNormal("x")
       => IF cursor_x < Len(CurrentLine)
          THEN /\ content' = [content EXCEPT ![cursor_y + 1] =
                                  WithoutUnit(CurrentLine, cursor_x)]
               /\ cursor_y' = cursor_y /\ cursor_x' = cursor_x
               /\ dirty' = TRUE
          ELSE UNCHANGED <<content, cursor_y, cursor_x, dirty>>]_vars

\* x has removed a unit that had units on both sides
C8_Witness == last.op = "x" /\ cursor_x > 0 /\ cursor_x < Len(CurrentLine)

\* C9: in Normal mode on row r, o inserts one empty line at index r+1 and O
\* one at index r, the other lines keeping content and order; the cursor is
\* then on the inserted line at column 0, the mode is Insert, dirty is true.
C9_OpenLine ==
    [][/\ HandleNormal("o")
          => /\ content' = WithRow(content, cursor_y + 1, <<>>)
             /\ cursor_y' = cursor_y + 1 /\ cursor_x' = 0
             /\ mode' = "insert" /\ dirty' = TRUE
       /\ HandleNormal("O")
          => /\ content' = WithRow(content, cursor_y, <<>>)
             /\ cursor_y' = cursor_y /\ cursor_x' = 0
             /\ mode' = "insert" /\ dirty' = TRUE]_vars

\* O has opened a line above a row that is not the first, lines on both sides
C9_Witness ==
    /\ last.op = "O" /\ cursor_y > 0 /\ cursor_y + 1 < Len(content)
    /\ content[cursor_y] # <<>> /\ content[cursor_y + 2] # <<>>

\* C10: in Insert mode a printable character typed at (r, c0) makes line r
\* its first c0 units, the character, then the rest; cursor_x becomes c0+1,
\* cursor_y and the other lines are unchanged, dirty is true.
C10_InsertChar ==
    [][\A ch \in TextChars :
         HandleInsert(ch)
         => /\ content' = [content EXCEPT ![cursor_y + 1] =
                               WithUnit(CurrentLine, cursor_x, ch)]
            /\ cursor_x' = cursor_x + 1 /\ cursor_y' = cursor_y
            /\ dirty' = TRUE]_vars

\* a character was typed between two others
C10_Witness == last.op = "char" /\ cursor_x > 1 /\ cursor_x < Len(CurrentLine)

\* C11: while the editor runs, every step that changes the line sequence
\* leaves dirty = true, and dirty goes from true to false only in a step in
\* which a save succeeded: the joined lines are in the file and the
\* "written" message is shown.
C11_DirtyTracking ==
    [][(pc # "exit" /\ pc # "fault")
       => /\ (content' # content => dirty' = TRUE)
          /\ (dirty /\ ~dirty')
             => (/\ disk' = File(Join(content))
                 /\ message' = MsgWritten(filename', Len(content))
                 /\ content' = content)]_vars

\* a two-line buffer made by editing has just been saved and is clean
C11_Witness ==
    /\ ~dirty /\ pc = "key" /\ saved.n = 1
    /\ Len(content) = 2 /\ message = MsgWritten(FileA, 2) /\ disk = File(Join(content))

\* the command texts typed that are none of q, q!, w, wq, w <name>
UnknownCommands == { <<>>, <<"x">> }

\* C12: a command text that is none of q, q!, w, wq, w <name> (the empty one
\* included) sets the message to 'Not an editor command: <text>' and changes
\* nothing else: lines, cursor, dirty, filename, quit and the file are as
\* before, and the editor is in Normal mode waiting for a key.
C12_UnknownCommand ==
    [][\A text \in UnknownCommands :
         Execute(text)
         => /\ message' = <<"Not an editor command: ">> \o text
            /\ UNCHANGED <<content, cursor_y, cursor_x, dirty, filename, quit, disk>>
            /\ mode' = "normal"
            /\ pc' = "key"]_vars

\* the unknown command x was refused on a dirty buffer
C12_Witness ==
    /\ message = <<"Not an editor command: ", "x">>
    /\ dirty /\ ~quit /\ pc = "key" /\ mode = "normal"

\* C13: w with no filename set asks for a name; a non-empty name becomes the
\* filename and the buffer is saved to it (dirty cleared when the write
\* succeeds); an empty name writes nothing and leaves lines, dirty, filename
\* and quit alone.  In every case the editor stays open.
C13_WriteAsksForName ==
    [][(filename = NoName /\ Execute(<<"w">>))
       => /\ pc' = "key" /\ quit' = FALSE /\ content' = content
          /\ \/ /\ filename' # NoName
                /\ \/ disk' = File(Join(content)) /\ dirty' = FALSE
                   \/ dirty' = dirty /\ \E e \in IOErrors : message' = MsgWriteErr(e)
             \/ UNCHANGED <<dirty, filename, disk>>]_vars

\* C14: no sequence of key events and commands drives the session into the
\* fault path of run(), the one that exits with a non-zero status.
C14_NoFaultPath == pc # "fault"

\* the commands that can write the file "a"
WritingCommands == { <<"w">>, <<"w", "q">>, <<"w", " ", "a">> }

\* C15: two successful saves to the same filename with no edit between them
\* write identical file contents, and dirty is false after each of them.
C15_SaveTwiceSameFile ==
    [][\A text \in WritingCommands :
         (Execute(text) /\ message' = MsgWritten(filename', Len(content)))
         => /\ dirty' = FALSE
            /\ disk'.exists
            /\ (saved.n > 0 /\ saved.fn = filename') => disk'.data = saved.data]_vars

\* a non-empty buffer has been saved twice in a row to the same file
C15_Witness ==
    /\ saved.n = 2 /\ saved.data # <<>> /\ disk = File(saved.data)
    /\ ~dirty /\ pc = "key"

\* C16: in Normal mode with no key pending, Escape leaves the whole editing
\* state unchanged: lines, cursor, mode, dirty, filename and quit (and the
\* file) are the same before and after.
C16_EscapeInNormal ==
    [][HandleNormal(KeyEsc)
       => UNCHANGED <<content, cursor_y, cursor_x, mode, dirty, filename, quit, disk>>]_vars

\* Escape was pressed in Normal mode on a dirty buffer, the cursor away
\* from the origin
C16_Witness ==
    /\ last.op = "esc" /\ mode = "normal" /\ pc = "key"
    /\ dirty /\ cursor_y > 0 /\ cursor_x > 0

\* the user leaves the command line with Escape after typing text: the
\* Escape key in the get_command loop of ted.py, a line with Escape in it
\* given to input() in ted-win.py
EscapeAfter(text) ==
    \/ frontend = "curses" /\ cmd = text /\ HandleCommandKey(KeyEsc)
    \/ /\ frontend = "win" /\ pc = "key" /\ mode = "normal"
       /\ \E line \in EscapedLines(text) : RunLine(EnsureY, EnsureX, line)

\* C17: in Command mode, Escape after any accumulated command text (valid
\* commands such as q! and w included) returns to Normal mode without
\* executing a command: lines, cursor, dirty, filename, quit and the file
\* are unchanged and no message is set.
C17_EscapeInCommand ==
    [][\A text \in CmdPrefixes :
         EscapeAfter(text)
         => /\ pc' = "key" /\ mode' = "normal"
            /\ UNCHANGED <<content, cursor_y, cursor_x, dirty, filename, quit, disk>>
            /\ message' = MsgNone]_vars

\* C18: in Normal mode after g, a second g puts the cursor on row 0 with the
\* column reclamped; any other key k discards the pending g and takes
\* effect as a fresh Normal-mode key: g then x deletes the unit under the
\* cursor, g then i enters Insert mode.
C18_PendingG ==
    [][/\ HandleG("g")
          => /\ cursor_y' = 0
             /\ cursor_x' = Min(cursor_x, Len(content[1]))
             /\ UNCHANGED <<content, mode, dirty>>
       /\ HandleG("i")
          => /\ mode' = "insert"
             /\ UNCHANGED <<content, cursor_y, cursor_x, dirty>>
       /\ (HandleG("x") /\ cursor_x < Len(CurrentLine))
          => /\ content' = [content EXCEPT ![cursor_y + 1] =
                                 WithoutUnit(CurrentLine, cursor_x)]
             /\ dirty' = TRUE
             /\ UNCHANGED <<cursor_y, cursor_x, mode>>]_vars

\* C19: in Normal mode, a sets cursor_x to min(cursor_x + 1, length of the
\* current line), switches to Insert mode and leaves lines, cursor_y and
\* dirty unchanged.
C19_Append ==
    [][HandleNormal("a")
       => /\ cursor_x' = Min(cursor_x + 1, Len(CurrentLine))
          /\ mode' = "insert"
          /\ UNCHANGED <<content, cursor_y, dirty>>]_vars

\* the cursor lands on row with its column pulled in to the end of that line
LandsOn(row) ==
    /\ cursor_y' = row
    /\ cursor_x' = (IF cursor_x <= Len(content[row + 1]) THEN cursor_x
                    ELSE Len(content[row + 1]))
    /\ cursor_x' <= Len(content'[cursor_y' + 1])
    /\ UNCHANGED <<content, dirty, mode>>

\* C20: every vertical motion (j/Down, k/Up, G, gg in Normal mode, the arrow
\* keys in Insert mode) moves cursor_y to the clamped target row (row + 1
\* capped at the last row, row - 1 floored at 0, the last row, row 0) and
\* sets cursor_x to min(previous cursor_x, length of the new row's line),
\* never past the end of that line.
C20_VerticalMotion ==
    [][/\ (HandleNormal("j") \/ HandleNormal(KeyDown) \/ HandleInsert(KeyDown))
          => LandsOn(IF cursor_y + 1 < Len(content) THEN cursor_y + 1 ELSE Len(content) - 1)
       /\ (HandleNormal("k") \/ HandleNormal(KeyUp) \/ HandleInsert(KeyUp))
          => LandsOn(IF cursor_y > 0 THEN cursor_y - 1 ELSE 0)
       /\ HandleNormal("G") => LandsOn(Len(content) - 1)
       /\ HandleG("g") => LandsOn(0)]_vars

\* a vertical motion has pulled the column in to the end of a shorter,
\* non-empty line
C20_Witness ==
    /\ last.op = "clamp" /\ cursor_x > 0 /\ cursor_x = Len(CurrentLine)
    /\ \E i \in 1..Len(content) : Len(content[i]) > cursor_x

\* the Normal-mode keys with no branch in the handler of both front-ends
UnrecognisedKeys == {"z", KeyOther, KeyEnter, KeyBackspace}

\* C21: in Normal mode the lines and dirty change only on x (with a unit
\* under the cursor), o and O: every other key there (the motions, i, a,
\* Escape, Enter, Backspace, any other key, the second key of g g) leaves
\* lines and dirty unchanged, and an unrecognised key leaves the cursor and
\* the mode unchanged as well.  The command line that ':' opens is not a
\* Normal-mode key event; in ted-win.py it is read and executed inside the
\* dispatch of ':', where a save may clear dirty.
C21_NormalModeFrame ==
    [][/\ (pc = "key" /\ mode = "normal" /\ (content' # content \/ dirty' # dirty))
          => \/ HandleNormal("x") /\ cursor_x < Len(CurrentLine)
             \/ HandleNormal("o")
             \/ HandleNormal("O")
             \/ frontend = "win" /\ \E text \in WritingCommands : Execute(text)
       /\ pc = "g" => UNCHANGED <<content, dirty>>
       /\ (/\ pc = "key" /\ mode = "normal"
           /\ ~UNCHANGED <<content, dirty, cursor_y, cursor_x, mode>>)
          => \A key \in UnrecognisedKeys : ~HandleNormal(key)]_vars

\* Escape was pressed in Normal mode on a two-line buffer saved and clean
C21_Witness ==
    /\ last.op = "esc" /\ mode = "normal" /\ pc = "key"
    /\ ~dirty /\ saved.n > 0 /\ Len(content) = 2 /\ cursor_y = 1

\* C22: between two consecutive key reads the previous key has been
\* dispatched to completion and the screen fully rendered: no key is read
\* while another key's dispatch is in progress, so the process waits for a
\* key only at the top of the run loop.
C22_OneKeyPerDispatch == pc \in {"key", "exit", "fault"}

\* C23: on every path by which the session ends after the terminal was put
\* into editor mode (quit set by a command, or a fault during a dispatch),
\* the terminal-restoring cleanup has run before the process exits; a fault
\* also gives a non-zero exit status.
C23_CleanupOnExit ==
    /\ pc \in {"exit", "fault"} => term = "cooked"
    /\ pc = "fault" => status # 0

\* a session of ted.py on a dirty buffer has ended on the fault path
C23_Witness ==
    /\ frontend = "curses" /\ pc = "fault" /\ dirty
    /\ term = "cooked" /\ status = 1

RECURSIVE LastColor(_, _, _, _)
\* the color of the last rule, in rule order, with a span covering column i
\* (0-based) of line
LastColor(line, rules, i, color) ==
    IF rules = <<>> THEN color
    ELSE LastColor(line, Tail(rules), i,
                   IF \E k \in 1..Len(FindIter(line, rules[1].cls)) :
                        /\ FindIter(line, rules[1].cls)[k][1] <= i
                        /\ i < FindIter(line, rules[1].cls)[k][2]
                   THEN rules[1].color ELSE color)

\* C24: colorizing a line with an ordered rule list: the rendered line shows
\* the original characters unchanged at their original positions, and each
\* position carries the color of the last rule (in rule order) that has a
\* span covering it, or no color when no rule's span covers it.
C24_LastRuleWins ==
    hl.shown
    => hl.screen = [i \in 1..Len(hl.line) |->
                      [ch |-> hl.line[i],
                       color |-> LastColor(hl.line, hl.rules, i - 1, NoColor)]]

\* C25: in every reachable state, dirty = false implies that the lines are
\* those of the most recent successful save, or of the start (load or empty
\* buffer) when no save has succeeded yet; so a quit by q discards no edit.
C25_CleanMeansSaved ==
    /\ [](~dirty => content = clean)
    /\ [][(Execute(<<"q">>) /\ quit') => (content' = content /\ content = clean)]_vars

\* the session was left by q after a two-line buffer had been edited and
\* saved
C25_Witness ==
    /\ pc = "exit" /\ quit /\ ~dirty /\ message = MsgNone
    /\ saved.n > 0 /\ Len(content) = 2 /\ content = clean

\* C26: the user can always leave: from every reachable state (Normal,
\* Normal with g awaiting its second key, Insert, Command with any partial
\* text, dirty or not, filename set or not) the key sequence Escape, `:`, q,
\* !, Enter ends with quit = true, without writing the file.
C26_CanAlwaysLeave ==
    (leave.on /\ leave.keys = <<>>) => (quit /\ disk = leave.disk)

====
